---- MODULE Spec2Model ----
(***************************************************************************)
(* Frame scheduler of TriangleApp: mainLoop, drawFrame, recreateSwapChain, *)
(* cleanupSwapChain, createSyncObjects and cleanup, together with the      *)
(* collaborators they talk to: the graphics queue (GPU), the presentation  *)
(* engine and the window system that delivers events.                      *)
(*                                                                         *)
(* The host program is single-threaded; its position is pc.  drawFrame and *)
(* recreateSwapChain are cut at their blocking calls and at the calls into *)
(* the driver, because the GPU and the presentation engine run             *)
(* concurrently with the host between those calls.                         *)
(*                                                                         *)
(* Window state (drawable extent, surface capabilities, close request)     *)
(* changes only while the host processes events (glfwPollEvents,           *)
(* glfwWaitEvents): that is where GLFW runs its callbacks.                 *)
(***************************************************************************)
EXTENDS Integers, Naturals, Sequences, FiniteSets, TLC

\* ------------------------------------------------------------------ bounds

\* Swapchain rebuilds after which no further rebuild is started.
MaxRebuilds == 2

\* Largest minImageCount the surface reports (image count is one more).
MaxMinImageCount == 2

\* ------------------------------------------------------- program constants

MAX_FRAMES_IN_FLIGHT == 2

WIDTH == 800

HEIGHT == 600

Frames == 0 .. (MAX_FRAMES_IN_FLIGHT - 1)

\* The drawable extent of a minimised window.
ZeroExtent == <<0, 0>>

\* The extent of the window as created.
InitialExtent == <<WIDTH, HEIGHT>>

\* The extents the window takes: minimised, as created, and resized to half.
Extents == {ZeroExtent, InitialExtent, <<WIDTH \div 2, HEIGHT \div 2>>}

MinImageCounts == 1 .. MaxMinImageCount

NoImage == -1

NullHandle == <<"null", 0, 0>>

\* ---------------------------------------------------------------- state

VARIABLES
    pc,                 \* position of the host thread
    rcReturn,           \* where recreateSwapChain returns to
    exitCode,           \* process exit code once main returned, else -1
    currentFrame,       \* TriangleApp::currentFrame
    framebufferResized, \* TriangleApp::framebufferResized
    swapchain,          \* SwapchainResources
    sync,               \* SyncResources
    live,               \* handles created and not yet destroyed
    rebuilds,           \* number of recreateSwapChain calls so far
    imageIndex,         \* drawFrame local
    resAcquire,         \* drawFrame local
    resPresent,         \* drawFrame local
    submitInfo,         \* drawFrame local (with the fence argument)
    presentInfo,        \* drawFrame local
    polled,             \* recreateSwapChain locals width, height
    callLog,            \* operations performed by the current drawFrame call
    frameAtEntry,       \* currentFrame when the current drawFrame call began
    rcEntry,            \* what the latest rebuild found on entry (see RcBegin)
    shouldClose,        \* glfwWindowShouldClose
    winExtent,          \* drawable extent of the window
    surfMinImages,      \* minImageCount of the surface capabilities
    gfxQueue,           \* submissions not yet executed, in submission order
    presentQueue,       \* present requests not yet processed
    imageState,         \* per swapchain image: "free" or "acquired" or "queued"
    stats,              \* counters of fence and semaphore operations, when kept
    commandBuffers,     \* TriangleApp::commandBuffers
    buffers             \* BufferResources: the per-slot uniform collections

vars == <<pc, rcReturn, exitCode, currentFrame, framebufferResized, swapchain,
          sync, live, rebuilds, imageIndex, resAcquire, resPresent, submitInfo,
          presentInfo, polled, callLog, frameAtEntry, rcEntry, shouldClose,
          winExtent, surfMinImages, gfxQueue, presentQueue, imageState, stats,
          commandBuffers, buffers>>

hostLocals == <<imageIndex, resAcquire, resPresent, submitInfo, presentInfo, polled>>

window == <<shouldClose, winExtent, surfMinImages>>

device == <<gfxQueue, presentQueue, imageState>>

frameResources == <<commandBuffers, buffers>>

\* ------------------------------------------------------------- helpers

\* std::vector modelled as a function over 0 .. size-1.
Size(v) == Cardinality(DOMAIN v)

Range(v) == {v[i] : i \in DOMAIN v}

Handle(kind, gen, idx) == <<kind, gen, idx>>

\* A semaphore or fence: its handle and whether it is signaled.
SyncObj(kind, gen, idx, sig) == [handle |-> Handle(kind, gen, idx), signaled |-> sig]

Handles(v) == {v[i].handle : i \in DOMAIN v}

IsZeroArea(e) == e[1] = 0 \/ e[2] = 0

NoSubmit ==
    [waitCount |-> 0, waitSem |-> NoImage, signalSem |-> NoImage, cmdBuf |-> NoImage,
     fence |-> NoImage]

NoPresent == [waitCount |-> 0, waitSem |-> NoImage, image |-> NoImage]

\* Value of recreateSwapChain's width, height while it is not running.
NotPolled == <<-1, -1>>

\* Value of rcEntry when the last host step was not part of a rebuild.
NoEntry == [extent |-> <<-1, -1>>, images |-> -1, live |-> -1, frameSlots |-> {}]

\* The counters while they are not kept.
NoStats ==
    [on |-> FALSE, iterations |-> 0, fenceResets |-> <<>>, fenceSignals |-> <<>>,
     renderFinishedSignals |-> <<>>]

\* The counters with one more iteration ended by the advance of the slot counter.
CountIteration == IF stats.on THEN [stats EXCEPT !.iterations = @ + 1] ELSE stats

\* The counters with one more vkResetFences on the fence of slot f.
CountFenceReset(f) == IF stats.on THEN [stats EXCEPT !.fenceResets[f] = @ + 1] ELSE stats

\* The counters with one more execution of a submission: its fence and its
\* render-finished semaphore are signaled.
CountExecution(sub) ==
    IF stats.on
    THEN [stats EXCEPT !.fenceSignals[sub.fence] = @ + 1,
                       !.renderFinishedSignals[sub.signalSem] = @ + 1]
    ELSE stats

\* Whether a submission recorded from frame slot f is still on the queue.
InFlight(f) == \E k \in DOMAIN gfxQueue : gfxQueue[k].cmdBuf = f

\* vkDeviceWaitIdle returns: every queue operation has completed.
DeviceIdle == gfxQueue = <<>> /\ presentQueue = <<>>

\* ------------------------------------------------- object creation

\* std::vector::resize: keeps the leading elements, default-fills the rest.
Resize(v, n) == [i \in 0 .. (n - 1) |-> IF i \in DOMAIN v THEN v[i] ELSE [handle |-> NullHandle, signaled |-> FALSE]]

\* Variant: the render-finished collection sized per frame slot.
RenderFinishedCount_perFrame(swapChainImageCount, maxFramesInFlight) == maxFramesInFlight

\* The size createSyncObjects gives the render-finished collection.
RenderFinishedCount(swapChainImageCount, maxFramesInFlight) == swapChainImageCount

\* Variant: fences are created unsignaled.
FenceCreateSignaled_unsignaled == FALSE

\* The create flags of the fences.
FenceCreateSignaled == TRUE

\* Variant: the render-finished collection is not resized to the image count.
createSyncObjects_noResize(s, swapChainImageCount, maxFramesInFlight, gen) ==
    LET ia == Resize(s.imageAvailable, maxFramesInFlight)
        rf == s.renderFinished
        fe == Resize(s.inFlight, maxFramesInFlight)
    IN  [imageAvailable |-> [i \in DOMAIN ia |-> SyncObj("imageAvailable", gen, i, FALSE)],
         renderFinished |-> [i \in DOMAIN rf |-> SyncObj("renderFinished", gen, i, FALSE)],
         inFlight       |-> [i \in DOMAIN fe |-> SyncObj("fence", gen, i, FenceCreateSignaled)]]

\* Variant: the fence collection is sized by the swapchain image count.
createSyncObjects_fencesPerImage(s, swapChainImageCount, maxFramesInFlight, gen) ==
    LET ia == Resize(s.imageAvailable, maxFramesInFlight)
        rf == Resize(s.renderFinished, RenderFinishedCount(swapChainImageCount, maxFramesInFlight))
        fe == Resize(s.inFlight, swapChainImageCount)
    IN  [imageAvailable |-> [i \in DOMAIN ia |-> SyncObj("imageAvailable", gen, i, FALSE)],
         renderFinished |-> [i \in DOMAIN rf |-> SyncObj("renderFinished", gen, i, FALSE)],
         inFlight       |-> [i \in DOMAIN fe |-> SyncObj("fence", gen, i, FenceCreateSignaled)]]

\* Synchronization::createSyncObjects: resizes the three collections, then
\* creates a new object into every element (whatever the element held).
createSyncObjects(s, swapChainImageCount, maxFramesInFlight, gen) ==
    LET ia == Resize(s.imageAvailable, maxFramesInFlight)
        rf == Resize(s.renderFinished, RenderFinishedCount(swapChainImageCount, maxFramesInFlight))
        fe == Resize(s.inFlight, maxFramesInFlight)
    IN  [imageAvailable |-> [i \in DOMAIN ia |-> SyncObj("imageAvailable", gen, i, FALSE)],
         renderFinished |-> [i \in DOMAIN rf |-> SyncObj("renderFinished", gen, i, FALSE)],
         inFlight       |-> [i \in DOMAIN fe |-> SyncObj("fence", gen, i, FenceCreateSignaled)]]

SyncHandles(s) == Handles(s.imageAvailable) \cup Handles(s.renderFinished) \cup Handles(s.inFlight)

\* SwapChain::createSwapChain: a swapchain for the surface as it is now, with
\* one image more than the surface's minimum.
createSwapChain(gen) ==
    [swapChain |-> Handle("swapchain", gen, 0),
     extent    |-> winExtent,
     images    |-> [i \in 0 .. surfMinImages |-> Handle("image", gen, i)]]

\* ImageViews::createImageViews: one view per swapchain image.
createImageViews(images, gen) == [i \in DOMAIN images |-> Handle("imageView", gen, i)]

\* Framebuffer::createFramebuffers: one framebuffer per image view.
createFramebuffers(imageViews, gen) == [i \in DOMAIN imageViews |-> Handle("framebuffer", gen, i)]

\* The swapchain with its views and framebuffers, as initVulkan and
\* recreateSwapChain build it.
BuildSwapchain(gen) ==
    LET sc == createSwapChain(gen)
        views == createImageViews(sc.images, gen)
    IN  [swapChain |-> sc.swapChain, extent |-> sc.extent, images |-> sc.images,
         imageViews |-> views, framebuffers |-> createFramebuffers(views, gen)]

SwapchainHandles(sc) == {sc.swapChain} \cup Range(sc.imageViews) \cup Range(sc.framebuffers)

\* Command::createCommandBuffers: allocates commandBufferCount command buffers.
createCommandBuffers(commandBufferCount) ==
    [i \in 0 .. (commandBufferCount - 1) |-> Handle("commandBuffer", 0, i)]

\* Buffer::createUniformBuffers: resizes the three collections to
\* MAX_FRAMES_IN_FLIGHT and creates and maps one buffer per element.
createUniformBuffers ==
    [uniformBuffers |-> [i \in 0 .. (MAX_FRAMES_IN_FLIGHT - 1) |-> Handle("uniformBuffer", 0, i)],
     uniformMemory  |-> [i \in 0 .. (MAX_FRAMES_IN_FLIGHT - 1) |-> Handle("uniformMemory", 0, i)],
     uniformMapped  |-> [i \in 0 .. (MAX_FRAMES_IN_FLIGHT - 1) |-> Handle("uniformMapped", 0, i)]]

EmptySync == [imageAvailable |-> <<>>, renderFinished |-> <<>>, inFlight |-> <<>>]

\* ------------------------------------------------------------- events

Events ==
    [type : {"other", "close"}, extent : {ZeroExtent}, minImages : {1}]
    \cup [type : {"resize"}, extent : Extents, minImages : MinImageCounts]

\* frameBufferResizeCallback, run by GLFW for a resize event.
frameBufferResizeCallback == framebufferResized' = TRUE

\* One event delivered while the host is in glfwPollEvents or glfwWaitEvents.
ProcessEvent(ev) ==
    \/ /\ ev.type = "other"
       /\ UNCHANGED <<window, framebufferResized>>
    \/ /\ ev.type = "close"
       /\ shouldClose' = TRUE
       /\ UNCHANGED <<winExtent, surfMinImages, framebufferResized>>
    \/ /\ ev.type = "resize"
       /\ ev.extent # winExtent
       /\ winExtent' = ev.extent
       /\ surfMinImages' = ev.minImages
       /\ frameBufferResizeCallback
       /\ UNCHANGED shouldClose

\* ---------------------------------------------------------------- Init

\* The state after initWindow and initVulkan: an 800x600 window, the first
\* swapchain, and the sync objects of generation 0.
\* The program state when mainLoop is entered, after initWindow and initVulkan.
InitState ==
    /\ pc = "loop"
    /\ rcReturn = "none"
    /\ exitCode = -1
    /\ currentFrame = 0
    /\ framebufferResized = FALSE
    /\ shouldClose = FALSE
    /\ winExtent = InitialExtent
    /\ surfMinImages \in MinImageCounts
    /\ swapchain = BuildSwapchain(0)
    /\ sync = createSyncObjects(EmptySync, Size(swapchain.images), MAX_FRAMES_IN_FLIGHT, 0)
    /\ live = SwapchainHandles(swapchain) \cup SyncHandles(sync)
    /\ rebuilds = 0
    /\ imageIndex = NoImage
    /\ resAcquire = "none"
    /\ resPresent = "none"
    /\ submitInfo = NoSubmit
    /\ presentInfo = NoPresent
    /\ polled = NotPolled
    /\ callLog = {}
    /\ frameAtEntry = 0
    /\ rcEntry = NoEntry
    /\ gfxQueue = <<>>
    /\ presentQueue = <<>>
    /\ imageState = [i \in DOMAIN swapchain.images |-> "free"]
    /\ commandBuffers = createCommandBuffers(MAX_FRAMES_IN_FLIGHT)
    /\ buffers = createUniformBuffers

Init ==
    /\ InitState
    /\ stats = NoStats

\* ------------------------------------------------------------ mainLoop

\* while (!glfwWindowShouldClose) { glfwPollEvents(); drawFrame(); }: the
\* loop test, the event poll and the entry into drawFrame.
MainLoopIter ==
    /\ pc = "loop"
    /\ ~shouldClose
    /\ \E ev \in Events : ProcessEvent(ev)
    /\ pc' = "df_wait"
    /\ callLog' = {}
    /\ frameAtEntry' = currentFrame
    /\ imageIndex' = NoImage
    /\ resAcquire' = "none"
    /\ resPresent' = "none"
    /\ submitInfo' = NoSubmit
    /\ presentInfo' = NoPresent
    /\ rcEntry' = NoEntry
    /\ UNCHANGED <<rcReturn, exitCode, currentFrame, swapchain, sync, live, rebuilds,
                   polled, device>>
    /\ UNCHANGED stats
    /\ UNCHANGED frameResources

\* The loop test fails: mainLoop goes on to its vkDeviceWaitIdle.
MainLoopExit ==
    /\ pc = "loop"
    /\ shouldClose
    /\ pc' = "ml_idle"
    /\ rcEntry' = NoEntry
    /\ UNCHANGED <<rcReturn, exitCode, currentFrame, framebufferResized, swapchain, sync,
                   live, rebuilds, hostLocals, callLog, frameAtEntry, window, device>>
    /\ UNCHANGED stats
    /\ UNCHANGED frameResources

\* Variant: mainLoop returns without its vkDeviceWaitIdle.
MainLoopWaitIdle_noWait ==
    /\ pc = "ml_idle"
    /\ pc' = "cleanup"
    /\ UNCHANGED <<rcReturn, exitCode, currentFrame, framebufferResized, swapchain, sync,
                   live, rebuilds, hostLocals, callLog, frameAtEntry, rcEntry, window, device>>
    /\ UNCHANGED stats
    /\ UNCHANGED frameResources

\* vkDeviceWaitIdle at the end of mainLoop.
MainLoopWaitIdle ==
    /\ pc = "ml_idle"
    /\ DeviceIdle
    /\ pc' = "cleanup"
    /\ UNCHANGED <<rcReturn, exitCode, currentFrame, framebufferResized, swapchain, sync,
                   live, rebuilds, hostLocals, callLog, frameAtEntry, rcEntry, window, device>>
    /\ UNCHANGED stats
    /\ UNCHANGED frameResources

\* ------------------------------------------------------------ drawFrame

AcquireResults == {"success", "suboptimal", "outOfDate", "fatal"}

SubmitResults == {"success", "fatal"}

PresentResults == {"success", "suboptimal", "outOfDate", "fatal"}

\* Variant: drawFrame does not wait for the slot's fence.
FenceWaitDone_skipWait(f) == TRUE

\* vkWaitForFences on the slot's fence returns.
FenceWaitDone(f) == sync.inFlight[f].signaled

\* Variant: the fence is reset right after the wait, before the acquisition.
DfWait_resetFirst ==
    /\ pc = "df_wait"
    /\ FenceWaitDone(currentFrame)
    /\ sync' = [sync EXCEPT !.inFlight[currentFrame].signaled = FALSE]
    /\ pc' = "df_acquire"
    /\ callLog' = callLog \cup {"wait", "resetFence"}
    /\ UNCHANGED <<rcReturn, exitCode, currentFrame, framebufferResized, swapchain,
                   live, rebuilds, hostLocals, frameAtEntry, rcEntry, window, device>>
    /\ stats' = CountFenceReset(currentFrame)
    /\ UNCHANGED frameResources

\* Variant: drawFrame starts without waiting for the slot's fence.
DfWait_noWait ==
    /\ pc = "df_wait"
    /\ pc' = "df_acquire"
    /\ callLog' = callLog \cup {"wait"}
    /\ UNCHANGED <<rcReturn, exitCode, currentFrame, framebufferResized, swapchain, sync,
                   live, rebuilds, hostLocals, frameAtEntry, rcEntry, window, device>>
    /\ UNCHANGED stats
    /\ UNCHANGED frameResources

\* The fence wait at the head of drawFrame.
DfWait ==
    /\ pc = "df_wait"
    /\ FenceWaitDone(currentFrame)
    /\ pc' = "df_acquire"
    /\ callLog' = callLog \cup {"wait"}
    /\ UNCHANGED <<rcReturn, exitCode, currentFrame, framebufferResized, swapchain, sync,
                   live, rebuilds, hostLocals, frameAtEntry, rcEntry, window, device>>
    /\ UNCHANGED stats
    /\ UNCHANGED frameResources

\* Variant: an out-of-date acquisition is not abandoned.
AfterAcquire_noAbandon(res) ==
    IF res # "success" /\ res # "suboptimal" /\ res # "outOfDate" THEN "error"
    ELSE "df_reset"

\* Variant: a suboptimal acquisition is treated as an error.
AfterAcquire_suboptimalFatal(res) ==
    IF res = "outOfDate" THEN "rc_begin"
    ELSE IF res # "success" THEN "error"
    ELSE "df_reset"

\* Variant: only out-of-date is tested after the acquisition.
AfterAcquire_onlyOutOfDate(res) ==
    IF res = "outOfDate" THEN "rc_begin"
    ELSE "df_reset"

\* Where drawFrame goes after vkAcquireNextImageKHR returned res.
AfterAcquire(res) ==
    IF res = "outOfDate" THEN "rc_begin"
    ELSE IF res # "success" /\ res # "suboptimal" THEN "error"
    ELSE "df_reset"

\* Variant: the abandoned iteration clears the resize flag before its rebuild.
DfAcquire_clearsFlag ==
    /\ pc = "df_acquire"
    /\ \E res \in AcquireResults :
         /\ resAcquire' = res
         /\ pc' = AfterAcquire(res)
         /\ pc' = "rc_begin" => rebuilds < MaxRebuilds
         /\ IF res \in {"success", "suboptimal"}
            THEN \E i \in DOMAIN imageState :
                   /\ imageState[i] = "free"
                   /\ imageIndex' = i
                   /\ imageState' = [imageState EXCEPT ![i] = "acquired"]
                   /\ sync' = [sync EXCEPT !.imageAvailable[currentFrame].signaled = TRUE]
            ELSE UNCHANGED <<imageIndex, imageState, sync>>
    /\ framebufferResized' = IF pc' = "rc_begin" THEN FALSE ELSE framebufferResized
    /\ rcReturn' = IF pc' = "rc_begin" THEN "loop" ELSE rcReturn
    /\ callLog' = callLog \cup {"acquire"}
    /\ UNCHANGED <<exitCode, currentFrame, swapchain, live, rebuilds,
                   resPresent, submitInfo, presentInfo, polled, frameAtEntry, rcEntry,
                   shouldClose, winExtent, surfMinImages, gfxQueue, presentQueue>>
    /\ UNCHANGED stats
    /\ UNCHANGED frameResources

\* vkAcquireNextImageKHR and the test of its result.  A usable image is
\* handed out only when one is free (the call blocks otherwise) and raises the
\* slot's image-available semaphore.
DfAcquire ==
    /\ pc = "df_acquire"
    /\ \E res \in AcquireResults :
         /\ resAcquire' = res
         /\ pc' = AfterAcquire(res)
         /\ pc' = "rc_begin" => rebuilds < MaxRebuilds
         /\ IF res \in {"success", "suboptimal"}
            THEN \E i \in DOMAIN imageState :
                   /\ imageState[i] = "free"
                   /\ imageIndex' = i
                   /\ imageState' = [imageState EXCEPT ![i] = "acquired"]
                   /\ sync' = [sync EXCEPT !.imageAvailable[currentFrame].signaled = TRUE]
            ELSE UNCHANGED <<imageIndex, imageState, sync>>
    /\ rcReturn' = IF pc' = "rc_begin" THEN "loop" ELSE rcReturn
    /\ callLog' = callLog \cup {"acquire"}
    /\ UNCHANGED <<exitCode, currentFrame, framebufferResized, swapchain, live, rebuilds,
                   resPresent, submitInfo, presentInfo, polled, frameAtEntry, rcEntry,
                   window, gfxQueue, presentQueue>>
    /\ UNCHANGED stats
    /\ UNCHANGED frameResources

\* Variant: drawFrame does not reset the slot's fence.
DfResetFence_noReset ==
    /\ pc = "df_reset"
    /\ pc' = "df_update"
    /\ callLog' = callLog \cup {"resetFence"}
    /\ UNCHANGED <<rcReturn, exitCode, currentFrame, framebufferResized, swapchain, sync,
                   live, rebuilds, hostLocals, frameAtEntry, rcEntry, window, device>>
    /\ UNCHANGED stats
    /\ UNCHANGED frameResources

\* vkResetFences on the slot's fence.
DfResetFence ==
    /\ pc = "df_reset"
    /\ sync' = [sync EXCEPT !.inFlight[currentFrame].signaled = FALSE]
    /\ pc' = "df_update"
    /\ callLog' = callLog \cup {"resetFence"}
    /\ UNCHANGED <<rcReturn, exitCode, currentFrame, framebufferResized, swapchain,
                   live, rebuilds, hostLocals, frameAtEntry, rcEntry, window, device>>
    /\ stats' = CountFenceReset(currentFrame)
    /\ UNCHANGED frameResources

\* updateUniformBuffer(currentFrame): the memcpy into the slot's mapped memory.
DfUpdateUniform ==
    /\ pc = "df_update"
    /\ pc' = "df_record"
    /\ callLog' = callLog \cup {"update"}
    /\ UNCHANGED <<rcReturn, exitCode, currentFrame, framebufferResized, swapchain, sync,
                   live, rebuilds, hostLocals, frameAtEntry, rcEntry, window, device>>
    /\ UNCHANGED stats
    /\ UNCHANGED frameResources

\* vkResetCommandBuffer and Command::recordCommandBuffer for the slot.
DfRecord ==
    /\ pc = "df_record"
    /\ imageIndex \in DOMAIN swapchain.framebuffers
    /\ pc' = "df_submit"
    /\ callLog' = callLog \cup {"record"}
    /\ UNCHANGED <<rcReturn, exitCode, currentFrame, framebufferResized, swapchain, sync,
                   live, rebuilds, hostLocals, frameAtEntry, rcEntry, window, device>>
    /\ UNCHANGED stats
    /\ UNCHANGED frameResources

\* Variant: the render-finished semaphore chosen by frame slot.
SignalSemaphoreIndex_byFrame == currentFrame

\* The index of the render-finished semaphore the submission signals.
SignalSemaphoreIndex == imageIndex

\* Variant: the submission signals the render-finished semaphore of the slot.
BuildSubmitInfo_signalBySlot ==
    [waitCount |-> 1,
     waitSem   |-> currentFrame,
     signalSem |-> currentFrame,
     cmdBuf    |-> currentFrame,
     fence     |-> currentFrame]

\* Variant: the submission waits on no semaphore.
BuildSubmitInfo_noWait ==
    [waitCount |-> 0,
     waitSem   |-> currentFrame,
     signalSem |-> SignalSemaphoreIndex,
     cmdBuf    |-> currentFrame,
     fence     |-> currentFrame]

\* The VkSubmitInfo drawFrame fills in, with the fence passed to vkQueueSubmit.
BuildSubmitInfo ==
    [waitCount |-> 1,
     waitSem   |-> currentFrame,
     signalSem |-> SignalSemaphoreIndex,
     cmdBuf    |-> currentFrame,
     fence     |-> currentFrame]

\* Variant: a failed submission is not tested and drawFrame goes on to present.
DfSubmit_failProceeds ==
    /\ pc = "df_submit"
    /\ submitInfo' = BuildSubmitInfo
    /\ \E res \in SubmitResults :
         IF res = "success"
         THEN /\ gfxQueue' = Append(gfxQueue, submitInfo')
              /\ pc' = "df_present"
         ELSE /\ gfxQueue' = gfxQueue
              /\ pc' = "df_present"
    /\ callLog' = callLog \cup {"submit"}
    /\ UNCHANGED <<rcReturn, exitCode, currentFrame, framebufferResized, swapchain, sync,
                   live, rebuilds, imageIndex, resAcquire, resPresent, presentInfo, polled,
                   frameAtEntry, rcEntry, window, presentQueue, imageState>>
    /\ UNCHANGED stats
    /\ UNCHANGED frameResources

\* Variant: a failed submission is swallowed and drawFrame ends the iteration.
DfSubmit_failIgnored ==
    /\ pc = "df_submit"
    /\ submitInfo' = BuildSubmitInfo
    /\ \E res \in SubmitResults :
         IF res = "success"
         THEN /\ gfxQueue' = Append(gfxQueue, submitInfo')
              /\ pc' = "df_present"
         ELSE /\ gfxQueue' = gfxQueue
              /\ pc' = "df_advance"
    /\ callLog' = callLog \cup {"submit"}
    /\ UNCHANGED <<rcReturn, exitCode, currentFrame, framebufferResized, swapchain, sync,
                   live, rebuilds, imageIndex, resAcquire, resPresent, presentInfo, polled,
                   frameAtEntry, rcEntry, window, presentQueue, imageState>>
    /\ UNCHANGED stats
    /\ UNCHANGED frameResources

\* vkQueueSubmit and the test of its result.
DfSubmit ==
    /\ pc = "df_submit"
    /\ submitInfo' = BuildSubmitInfo
    /\ \E res \in SubmitResults :
         IF res = "success"
         THEN /\ gfxQueue' = Append(gfxQueue, submitInfo')
              /\ pc' = "df_present"
         ELSE /\ gfxQueue' = gfxQueue
              /\ pc' = "error"
    /\ callLog' = callLog \cup {"submit"}
    /\ UNCHANGED <<rcReturn, exitCode, currentFrame, framebufferResized, swapchain, sync,
                   live, rebuilds, imageIndex, resAcquire, resPresent, presentInfo, polled,
                   frameAtEntry, rcEntry, window, presentQueue, imageState>>
    /\ UNCHANGED stats
    /\ UNCHANGED frameResources

\* Variant: the present waits on no semaphore.
BuildPresentInfo_noWait ==
    [waitCount |-> 0, waitSem |-> submitInfo.signalSem, image |-> imageIndex]

\* The VkPresentInfoKHR drawFrame fills in: it waits on signalSemaphores.
BuildPresentInfo ==
    [waitCount |-> 1, waitSem |-> submitInfo.signalSem, image |-> imageIndex]

\* Variant: the resize flag is not looked at after the present.
AfterPresent_ignoreFlag(res) ==
    IF res = "outOfDate" \/ res = "suboptimal" THEN "rc_begin"
    ELSE IF res # "success" THEN "error"
    ELSE "df_advance"

\* Where drawFrame goes after vkQueuePresentKHR returned res.
AfterPresent(res) ==
    IF res = "outOfDate" \/ res = "suboptimal" \/ framebufferResized THEN "rc_begin"
    ELSE IF res # "success" THEN "error"
    ELSE "df_advance"

\* Variant: the test after the present does not read the resize flag.
DfPresent_flagNotRead ==
    /\ pc = "df_present"
    /\ presentInfo' = BuildPresentInfo
    /\ \E res \in PresentResults :
         /\ resPresent' = res
         /\ pc' = IF res = "outOfDate" \/ res = "suboptimal" THEN "rc_begin"
                  ELSE IF res # "success" THEN "error"
                  ELSE "df_advance"
         /\ pc' = "rc_begin" => rebuilds < MaxRebuilds
         /\ IF res = "fatal"
            THEN UNCHANGED <<presentQueue, imageState>>
            ELSE /\ presentQueue' = Append(presentQueue, presentInfo')
                 /\ imageState' = [imageState EXCEPT ![presentInfo'.image] = "queued"]
    /\ framebufferResized' = IF pc' = "rc_begin" THEN FALSE ELSE framebufferResized
    /\ rcReturn' = IF pc' = "rc_begin" THEN "df_advance" ELSE rcReturn
    /\ callLog' = callLog \cup {"present"}
    /\ UNCHANGED <<exitCode, currentFrame, swapchain, sync, live, rebuilds, imageIndex,
                   resAcquire, submitInfo, polled, frameAtEntry, rcEntry, window, gfxQueue>>
    /\ UNCHANGED stats
    /\ UNCHANGED frameResources

\* vkQueuePresentKHR and the test of its result.
DfPresent ==
    /\ pc = "df_present"
    /\ presentInfo' = BuildPresentInfo
    /\ \E res \in PresentResults :
         /\ resPresent' = res
         /\ pc' = AfterPresent(res)
         /\ pc' = "rc_begin" => rebuilds < MaxRebuilds
         /\ IF res = "fatal"
            THEN UNCHANGED <<presentQueue, imageState>>
            ELSE /\ presentQueue' = Append(presentQueue, presentInfo')
                 /\ imageState' = [imageState EXCEPT ![presentInfo'.image] = "queued"]
    /\ framebufferResized' = IF pc' = "rc_begin" THEN FALSE ELSE framebufferResized
    /\ rcReturn' = IF pc' = "rc_begin" THEN "df_advance" ELSE rcReturn
    /\ callLog' = callLog \cup {"present"}
    /\ UNCHANGED <<exitCode, currentFrame, swapchain, sync, live, rebuilds, imageIndex,
                   resAcquire, submitInfo, polled, frameAtEntry, rcEntry, window, gfxQueue>>
    /\ UNCHANGED stats
    /\ UNCHANGED frameResources

\* Variant: the slot counter is incremented without wrapping around.
DfAdvance_noWrap ==
    /\ pc = "df_advance"
    /\ currentFrame' = currentFrame + 1
    /\ pc' = "loop"
    /\ callLog' = callLog \cup {"advance"}
    /\ rcEntry' = NoEntry
    /\ UNCHANGED <<rcReturn, exitCode, framebufferResized, swapchain, sync, live, rebuilds,
                   hostLocals, frameAtEntry, window, device>>
    /\ stats' = CountIteration
    /\ UNCHANGED frameResources

\* currentFrame = (currentFrame + 1) % MAX_FRAMES_IN_FLIGHT, and the return.
DfAdvance ==
    /\ pc = "df_advance"
    /\ currentFrame' = (currentFrame + 1) % MAX_FRAMES_IN_FLIGHT
    /\ pc' = "loop"
    /\ callLog' = callLog \cup {"advance"}
    /\ rcEntry' = NoEntry
    /\ UNCHANGED <<rcReturn, exitCode, framebufferResized, swapchain, sync, live, rebuilds,
                   hostLocals, frameAtEntry, window, device>>
    /\ stats' = CountIteration
    /\ UNCHANGED frameResources

\* ---------------------------------------------------- recreateSwapChain

\* Whether the minimisation loop of recreateSwapChain runs (again), given the
\* width and height it last read.
KeepPolling(wh) == wh[1] = 0 \/ wh[2] = 0

\* Entry of recreateSwapChain: the first glfwGetFramebufferSize and the first
\* test of the loop condition.
RcBegin ==
    /\ pc = "rc_begin"
    /\ polled' = winExtent
    /\ pc' = IF KeepPolling(polled') THEN "rc_poll" ELSE "rc_idle"
    /\ rebuilds' = rebuilds + 1
    /\ rcEntry' = [extent |-> swapchain.extent, images |-> Size(swapchain.images),
                   live |-> Cardinality(live),
                   frameSlots |-> Handles(sync.imageAvailable) \cup Handles(sync.inFlight)]
    /\ callLog' = callLog \cup {"recreate"}
    /\ UNCHANGED <<rcReturn, exitCode, currentFrame, framebufferResized, swapchain, sync,
                   live, imageIndex, resAcquire, resPresent, submitInfo, presentInfo,
                   frameAtEntry, window, device>>
    /\ UNCHANGED stats
    /\ UNCHANGED frameResources

\* One pass of the loop body: glfwGetFramebufferSize reads the size, then
\* glfwWaitEvents blocks until an event arrives and processes it, then the
\* loop condition is tested on the width and height read before the wait.
RcPoll ==
    /\ pc = "rc_poll"
    /\ polled' = winExtent
    /\ \E ev \in Events : ProcessEvent(ev)
    /\ pc' = IF KeepPolling(polled') THEN "rc_poll" ELSE "rc_idle"
    /\ UNCHANGED <<rcReturn, exitCode, currentFrame, swapchain, sync, live, rebuilds,
                   imageIndex, resAcquire, resPresent, submitInfo, presentInfo, callLog,
                   frameAtEntry, rcEntry, device>>
    /\ UNCHANGED stats
    /\ UNCHANGED frameResources

\* Variant: the rebuild does not wait for the device to be idle.
RcWaitIdle_noWait ==
    /\ pc = "rc_idle"
    /\ pc' = "rc_cleanup"
    /\ UNCHANGED <<rcReturn, exitCode, currentFrame, framebufferResized, swapchain, sync,
                   live, rebuilds, hostLocals, callLog, frameAtEntry, rcEntry, window, device>>
    /\ UNCHANGED stats
    /\ UNCHANGED frameResources

\* vkDeviceWaitIdle in recreateSwapChain.
RcWaitIdle ==
    /\ pc = "rc_idle"
    /\ DeviceIdle
    /\ pc' = "rc_cleanup"
    /\ UNCHANGED <<rcReturn, exitCode, currentFrame, framebufferResized, swapchain, sync,
                   live, rebuilds, hostLocals, callLog, frameAtEntry, rcEntry, window, device>>
    /\ UNCHANGED stats
    /\ UNCHANGED frameResources

\* TriangleApp::cleanupSwapChain: destroys the framebuffers, the image views,
\* the swapchain and the render-finished semaphores, and clears the latter.
cleanupSwapChain ==
    [live |-> live \ (SwapchainHandles(swapchain) \cup Handles(sync.renderFinished)),
     sync |-> [sync EXCEPT !.renderFinished = <<>>]]

\* cleanupSwapChain and the reset of the swapchain members that follows it.
RcCleanup ==
    /\ pc = "rc_cleanup"
    /\ live' = cleanupSwapChain.live
    /\ sync' = cleanupSwapChain.sync
    /\ swapchain' = [swapchain EXCEPT !.swapChain = NullHandle, !.images = <<>>,
                                      !.imageViews = <<>>, !.framebuffers = <<>>]
    /\ imageState' = <<>>
    /\ pc' = "rc_create"
    /\ UNCHANGED <<rcReturn, exitCode, currentFrame, framebufferResized, rebuilds,
                   hostLocals, callLog, frameAtEntry, rcEntry, window, gfxQueue, presentQueue>>
    /\ UNCHANGED stats
    /\ UNCHANGED frameResources

\* createSwapChain, createImageViews and createFramebuffers of the rebuild.
RcCreate ==
    /\ pc = "rc_create"
    /\ swapchain' = BuildSwapchain(rebuilds)
    /\ live' = live \cup SwapchainHandles(swapchain')
    /\ imageState' = [i \in DOMAIN swapchain'.images |-> "free"]
    /\ pc' = "rc_sync"
    /\ UNCHANGED <<rcReturn, exitCode, currentFrame, framebufferResized, sync, rebuilds,
                   hostLocals, callLog, frameAtEntry, rcEntry, window, gfxQueue, presentQueue>>
    /\ UNCHANGED stats
    /\ UNCHANGED frameResources

\* createSyncObjects of the rebuild, and the return to the caller (the locals
\* of recreateSwapChain go out of scope).
RcSync ==
    /\ pc = "rc_sync"
    /\ sync' = createSyncObjects(sync, Size(swapchain.images), MAX_FRAMES_IN_FLIGHT, rebuilds)
    /\ live' = live \cup SyncHandles(sync')
    /\ pc' = rcReturn
    /\ rcReturn' = "none"
    /\ polled' = NotPolled
    /\ UNCHANGED <<exitCode, currentFrame, framebufferResized, swapchain, rebuilds,
                   imageIndex, resAcquire, resPresent, submitInfo, presentInfo, callLog,
                   frameAtEntry, rcEntry, window, device>>
    /\ UNCHANGED stats
    /\ UNCHANGED frameResources

\* --------------------------------------------------- cleanup and main

\* TriangleApp::cleanup: cleanupSwapChain, then the image-available semaphores
\* and the fences the collections hold; then run and main return EXIT_SUCCESS.
Cleanup ==
    /\ pc = "cleanup"
    /\ live' = cleanupSwapChain.live
                   \ (Handles(sync.imageAvailable) \cup Handles(sync.inFlight))
    /\ sync' = cleanupSwapChain.sync
    /\ pc' = "exit"
    /\ exitCode' = 0
    /\ UNCHANGED <<rcReturn, currentFrame, framebufferResized, swapchain, rebuilds,
                   hostLocals, callLog, frameAtEntry, rcEntry, window, device>>
    /\ UNCHANGED stats
    /\ UNCHANGED frameResources

\* Variant: the catch block returns EXIT_SUCCESS.
MainCatch_returnsSuccess ==
    /\ pc = "error"
    /\ pc' = "exit"
    /\ exitCode' = 0
    /\ UNCHANGED <<rcReturn, currentFrame, framebufferResized, swapchain, sync, live,
                   rebuilds, hostLocals, callLog, frameAtEntry, rcEntry, window, device>>
    /\ UNCHANGED stats
    /\ UNCHANGED frameResources

\* The catch block of main: a std::runtime_error thrown in drawFrame unwinds
\* through mainLoop and run, and main returns EXIT_FAILURE.
MainCatch ==
    /\ pc = "error"
    /\ pc' = "exit"
    /\ exitCode' = 1
    /\ UNCHANGED <<rcReturn, currentFrame, framebufferResized, swapchain, sync, live,
                   rebuilds, hostLocals, callLog, frameAtEntry, rcEntry, window, device>>
    /\ UNCHANGED stats
    /\ UNCHANGED frameResources

\* ------------------------------------------- GPU and presentation engine

\* The graphics queue executes its oldest submission once the semaphore it
\* waits on is signaled: the wait consumes that semaphore, and completion
\* signals the submission's semaphore and fence.
GpuExecute ==
    /\ gfxQueue # <<>>
    /\ LET h == Head(gfxQueue)
       IN  /\ h.waitCount = 0 \/ sync.imageAvailable[h.waitSem].signaled
           /\ sync' = [sync EXCEPT !.imageAvailable[h.waitSem].signaled =
                                        IF h.waitCount = 0 THEN @ ELSE FALSE,
                                   !.renderFinished[h.signalSem].signaled = TRUE,
                                   !.inFlight[h.fence].signaled = TRUE]
    /\ gfxQueue' = Tail(gfxQueue)
    /\ UNCHANGED <<pc, rcReturn, exitCode, currentFrame, framebufferResized, swapchain,
                   live, rebuilds, hostLocals, callLog, frameAtEntry, rcEntry, window,
                   presentQueue, imageState>>
    /\ stats' = CountExecution(Head(gfxQueue))
    /\ UNCHANGED frameResources

\* The presentation engine processes its oldest present request once the
\* semaphore it waits on is signaled, and gives the image back.
PresentEngine ==
    /\ presentQueue # <<>>
    /\ LET p == Head(presentQueue)
       IN  /\ p.waitCount = 0 \/ sync.renderFinished[p.waitSem].signaled
           /\ sync' = [sync EXCEPT !.renderFinished[p.waitSem].signaled =
                                        IF p.waitCount = 0 THEN @ ELSE FALSE]
           /\ imageState' = [imageState EXCEPT ![p.image] = "free"]
    /\ presentQueue' = Tail(presentQueue)
    /\ UNCHANGED <<pc, rcReturn, exitCode, currentFrame, framebufferResized, swapchain,
                   live, rebuilds, hostLocals, callLog, frameAtEntry, rcEntry, window,
                   gfxQueue>>
    /\ UNCHANGED stats
    /\ UNCHANGED frameResources

\* ---------------------------------------------------------------- Next

Next ==
    \/ MainLoopIter
    \/ MainLoopExit
    \/ MainLoopWaitIdle
    \/ DfWait
    \/ DfAcquire
    \/ DfResetFence
    \/ DfUpdateUniform
    \/ DfRecord
    \/ DfSubmit
    \/ DfPresent
    \/ DfAdvance
    \/ RcBegin
    \/ RcPoll
    \/ RcWaitIdle
    \/ RcCleanup
    \/ RcCreate
    \/ RcSync
    \/ Cleanup
    \/ MainCatch
    \/ GpuExecute
    \/ PresentEngine

Spec == Init /\ [][Next]_vars

\* -------------------------------------------------------------- claims

\* Positions of the host inside recreateSwapChain.
RebuildPcs == {"rc_begin", "rc_poll", "rc_idle", "rc_cleanup", "rc_create", "rc_sync"}

\* The latest host step was the return of a rebuild.
RebuildJustReturned == pc \notin RebuildPcs /\ rcEntry # NoEntry

\* C1: the uniform slot and the command buffer of the current frame slot are
\* written (update, reset/record) only when no submission recorded from that
\* slot is still executing or queued on the GPU.
C1_FenceWaitBeforeRecord ==
    pc \in {"df_update", "df_record", "df_submit"} => ~InFlight(currentFrame)

\* C1 witness: after a rebuild, slot 0 is being recorded again while the
\* submission of slot 1 is still in flight.
C1_Witness ==
    /\ pc = "df_record"
    /\ currentFrame = 0
    /\ InFlight(1)
    /\ rebuilds >= 1

\* C2: a submitting iteration waits on the image-available semaphore of the
\* current slot, signals the render-finished semaphore of the acquired image
\* and the fence of the current slot; its present waits on that same
\* render-finished semaphore and presents that image.  The same holds for what
\* is on the queues.
C2_SubmitPresentIndexing ==
    /\ "submit" \in callLog =>
         /\ submitInfo.signalSem = imageIndex
         /\ submitInfo.waitSem = frameAtEntry
         /\ submitInfo.fence = frameAtEntry
         /\ submitInfo.cmdBuf = frameAtEntry
    /\ "present" \in callLog =>
         /\ presentInfo.waitSem = submitInfo.signalSem
         /\ presentInfo.waitSem = imageIndex
         /\ presentInfo.image = imageIndex
    /\ \A k \in DOMAIN presentQueue : presentQueue[k].waitSem = presentQueue[k].image

\* C2 witness: an iteration on slot 0 submitted and presented image 2.
C2_Witness ==
    /\ "present" \in callLog
    /\ resPresent = "success"
    /\ frameAtEntry = 0
    /\ imageIndex = 2

\* C3: when the acquisition of a drawFrame call reported out-of-date, that call
\* does nothing but the wait, the acquisition and a rebuild; the slot's fence
\* stays signaled, the slot counter keeps its value, and once the call has
\* returned the rebuild has run and the fence wait of the retry does not block.
C3_OutOfDateAbandons ==
    resAcquire = "outOfDate" =>
        /\ callLog \subseteq {"wait", "acquire", "recreate"}
        /\ currentFrame = frameAtEntry
        /\ pc \in RebuildPcs \cup {"loop", "ml_idle", "cleanup", "exit"}
        /\ pc \in RebuildPcs \cup {"loop"} => sync.inFlight[currentFrame].signaled
        /\ pc = "loop" => "recreate" \in callLog /\ FenceWaitDone(currentFrame)

\* C3 witness: a call on slot 1 was abandoned at acquire and has returned.
C3_Witness ==
    /\ pc = "loop"
    /\ resAcquire = "outOfDate"
    /\ currentFrame = 1
    /\ "recreate" \in callLog

\* C4: a frame slot's fence is unsignaled only while a submission that will
\* signal it is outstanding, or between the fence reset and the submission of
\* an iteration whose acquisition returned success or suboptimal (or after
\* that submission failed and ended the run).  So the fence wait never waits
\* on an unsignaled fence nothing will signal.
C4_ResetOnlyAfterAcquire ==
    \A f \in Frames :
        ~sync.inFlight[f].signaled =>
            \/ InFlight(f)
            \/ /\ f = currentFrame
               /\ resAcquire \in {"success", "suboptimal"}
               /\ "resetFence" \in callLog
               /\ pc \in {"df_update", "df_record", "df_submit", "error", "exit"}

\* C4 witness: the fence wait of slot 0 faces an unsignaled fence whose
\* submission is outstanding, after an earlier rebuild.
C4_Witness ==
    /\ pc = "df_wait"
    /\ currentFrame = 0
    /\ ~sync.inFlight[0].signaled
    /\ InFlight(0)
    /\ rebuilds >= 1

\* C5: outside a rebuild (after initialization and after every rebuild) and
\* until cleanup ran, there are as many render-finished semaphores as the
\* current swapchain has images.
C5_RenderFinishedPerImage ==
    (pc \notin RebuildPcs /\ exitCode # 0) =>
        Size(sync.renderFinished) = Size(swapchain.images)

\* C5 witness: a rebuild returned with fewer images than before.
C5_Witness ==
    /\ RebuildJustReturned
    /\ Size(swapchain.images) < rcEntry.images
    /\ Size(sync.renderFinished) = Size(swapchain.images)

\* A rebuild returned with more images than before.
C5_WitnessGrew ==
    /\ RebuildJustReturned
    /\ Size(swapchain.images) > rcEntry.images

\* A rebuild returned with the image count it found.
C5_WitnessSame ==
    /\ RebuildJustReturned
    /\ Size(swapchain.images) = rcEntry.images

\* C6: when a rebuild has returned, the fences and image-available semaphores
\* of the frame slots are the objects the rebuild found on entry.
C6_RebuildKeepsFrameSlots ==
    RebuildJustReturned =>
        Handles(sync.imageAvailable) \cup Handles(sync.inFlight) = rcEntry.frameSlots

\* C7: when a rebuild has returned and the drawable extent and the surface's
\* minimum image count are what they were for the old swapchain, the image
\* count is unchanged and so is the number of live handles.
C7_RebuildRoundTrip ==
    (/\ RebuildJustReturned
     /\ swapchain.extent = rcEntry.extent
     /\ surfMinImages + 1 = rcEntry.images) =>
        /\ Size(swapchain.images) = rcEntry.images
        /\ Cardinality(live) = rcEntry.live

\* C8: a present result other than success, out-of-date or suboptimal makes
\* drawFrame throw: no rebuild runs in that call, the slot counter keeps its
\* value and the run ends.
C8_PresentFatalAlwaysThrows ==
    resPresent = "fatal" =>
        /\ pc \in {"error", "exit"}
        /\ "recreate" \notin callLog
        /\ currentFrame = frameAtEntry

\* C9: an iteration whose acquisition reported suboptimal and that ran to its
\* end has run a rebuild after its present.
C9_SuboptimalAcquireRebuilds ==
    (resAcquire = "suboptimal" /\ "advance" \in callLog) => "recreate" \in callLog

\* C10: the drawable extent is non-zero at the moment the rebuild creates the
\* swapchain.
C10_NoZeroAreaSwapchain ==
    pc = "rc_create" => ~IsZeroArea(winExtent)

\* C11: a rebuild sits in its minimisation loop, where it cannot go on without
\* a window event, only while the drawable extent is zero: once the extent is
\* non-zero the rebuild goes on without a further event.
C11_PollEndsWhenNonZero ==
    pc = "rc_poll" => IsZeroArea(winExtent)

\* The latest drawFrame call submitted and its submission failed.
SubmitFailed == "submit" \in callLog /\ "present" \notin callLog /\ pc \in {"error", "exit"}

\* C12: the slot counter stays in 0 .. N-1; a drawFrame call changes it only
\* by its one advance to (f + 1) mod N; a call that presented without a fatal
\* result and returned has advanced, whatever the present returned and whether
\* or not a rebuild ran; a call abandoned at acquire has not.
C12_SlotCounter ==
    /\ currentFrame \in Frames
    /\ currentFrame = IF "advance" \in callLog
                      THEN (frameAtEntry + 1) % MAX_FRAMES_IN_FLIGHT
                      ELSE frameAtEntry
    /\ (pc = "loop" /\ "present" \in callLog /\ resPresent # "fatal") => "advance" \in callLog
    /\ resAcquire = "outOfDate" => "advance" \notin callLog

\* C12 witness: an iteration on slot 1 whose present reported out-of-date ran
\* a rebuild and wrapped the counter to 0.
C12_Witness ==
    /\ pc = "loop"
    /\ resPresent = "outOfDate"
    /\ {"recreate", "advance"} \subseteq callLog
    /\ frameAtEntry = 1
    /\ currentFrame = 0

\* C13: once drawFrame has presented, it has started a rebuild unless the
\* present returned neither out-of-date nor suboptimal and the resize flag was
\* clear; the resize flag is clear when that rebuild starts.
C13_PresentTriggersRebuild ==
    /\ ("present" \in callLog /\ "recreate" \notin callLog /\ pc # "rc_begin") =>
          /\ resPresent \notin {"outOfDate", "suboptimal"}
          /\ pc \in {"df_advance", "error"} => ~framebufferResized
    /\ (pc = "rc_begin" /\ "present" \in callLog) => ~framebufferResized

\* C13 witness: a rebuild starts after a successful present because the resize
\* flag was set.
C13_Witness ==
    /\ pc = "rc_begin"
    /\ "present" \in callLog
    /\ resPresent = "success"

\* C14: when a rebuild is about to destroy the swapchain-owned objects the
\* device is idle, and whatever is queued on the device refers to objects
\* that exist.
C14_DestroyOnlyWhenIdle ==
    /\ pc = "rc_cleanup" => DeviceIdle
    /\ \A k \in DOMAIN gfxQueue :
          /\ gfxQueue[k].signalSem \in DOMAIN sync.renderFinished
          /\ sync.renderFinished[gfxQueue[k].signalSem].handle \in live
    /\ \A k \in DOMAIN presentQueue :
          /\ presentQueue[k].waitSem \in DOMAIN sync.renderFinished
          /\ sync.renderFinished[presentQueue[k].waitSem].handle \in live
          /\ presentQueue[k].image \in DOMAIN swapchain.images
          /\ swapchain.swapChain \in live

\* C14 witness: the rebuild that follows a submission and present of the same
\* iteration is about to destroy, the submission having completed.
C14_Witness ==
    /\ pc = "rc_cleanup"
    /\ {"submit", "present"} \subseteq callLog
    /\ sync.inFlight[frameAtEntry].signaled

C16_AcquireFatalThrows ==
    resAcquire = "fatal" =>
        /\ pc \in {"error", "exit"}
        /\ pc = "exit" => exitCode = 1
        /\ callLog = {"wait", "acquire"}
        /\ currentFrame = frameAtEntry
        /\ sync.inFlight[currentFrame].signaled

\* C16 witness: the acquisition of an iteration on slot 1 failed.
C16_Witness ==
    /\ pc = "error"
    /\ resAcquire = "fatal"
    /\ currentFrame = 1

\* The latest drawFrame call, if any, ran to its end or to its early return.
LastCallReturned ==
    \/ callLog = {}
    \/ "advance" \in callLog
    \/ resAcquire = "outOfDate" /\ "recreate" \in callLog

\* A std::runtime_error left the latest drawFrame call.
FatalRaised ==
    \/ resAcquire = "fatal"
    \/ "submit" \in callLog /\ "present" \notin callLog
    \/ resPresent = "fatal" /\ "recreate" \notin callLog /\ "advance" \notin callLog

\* C18: the loop is left only on the close request and only between two
\* drawFrame calls, and cleanup destroys nothing before the device is idle:
\* from cleanup on nothing is queued on the device.
C18_ExitBetweenIterationsThenIdle ==
    (pc \in {"ml_idle", "cleanup"} \/ exitCode = 0) =>
        /\ shouldClose
        /\ LastCallReturned
        /\ pc # "ml_idle" => DeviceIdle
        /\ pc = "cleanup" => SwapchainHandles(swapchain) \cup SyncHandles(sync) \subseteq live

\* C18 witness: the loop was left after an iteration that submitted and
\* presented, and cleanup is about to destroy.
C18_Witness ==
    /\ pc = "cleanup"
    /\ {"submit", "present", "advance"} \subseteq callLog

\* C19: the process exits with EXIT_SUCCESS exactly when no error left the
\* frame loop, and with EXIT_FAILURE exactly when one did.
C19_ExitCode ==
    /\ exitCode \in {-1, 0, 1}
    /\ pc = "exit" <=> exitCode # -1
    /\ pc = "exit" => (exitCode = 1 <=> FatalRaised)

\* C19 witness: the process exited with EXIT_FAILURE after a fatal present.
C19_Witness ==
    /\ pc = "exit"
    /\ exitCode = 1
    /\ resPresent = "fatal"

\* C19 witness: the process exited with EXIT_SUCCESS.
C19_WitnessSuccess ==
    /\ pc = "exit"
    /\ exitCode = 0
    /\ "present" \in callLog

\* C20: at most MAX_FRAMES_IN_FLIGHT submissions are outstanding on the
\* graphics queue, and at most one of them belongs to any one frame slot.
C20_BoundedInFlight ==
    /\ Len(gfxQueue) <= MAX_FRAMES_IN_FLIGHT
    /\ \A f \in Frames :
          Cardinality({k \in DOMAIN gfxQueue : gfxQueue[k].cmdBuf = f}) <= 1

\* C20 witness: MAX_FRAMES_IN_FLIGHT submissions are outstanding while the
\* host is back at the fence wait of the next iteration.
C20_Witness ==
    /\ Len(gfxQueue) = MAX_FRAMES_IN_FLIGHT
    /\ pc = "df_wait"

\* ------------------------------------------- steady-state scenario

\* Number of drawFrame calls of the scenario.
ScenarioFrames == 6

\* Number of swapchain images of the scenario.
ScenarioImages == 3

\* The counters of the scenario, all at zero.
ScenarioStats ==
    [on |-> TRUE, iterations |-> 0,
     fenceResets |-> [f \in Frames |-> 0],
     fenceSignals |-> [f \in Frames |-> 0],
     renderFinishedSignals |-> [i \in 0 .. (ScenarioImages - 1) |-> 0]]

ScInit ==
    /\ InitState
    /\ surfMinImages = ScenarioImages - 1
    /\ stats = ScenarioStats

\* A loop iteration in which no window event arrives.
ScMainLoopIter ==
    /\ stats.iterations < ScenarioFrames
    /\ MainLoopIter
    /\ UNCHANGED <<window, framebufferResized>>

\* The acquisition succeeds and hands the images out round-robin.
ScAcquire ==
    /\ DfAcquire
    /\ resAcquire' = "success"
    /\ imageIndex' = stats.iterations % ScenarioImages

\* The submission succeeds.
ScSubmit ==
    /\ DfSubmit
    /\ pc' = "df_present"

\* The present succeeds and no rebuild follows.
ScPresent ==
    /\ DfPresent
    /\ resPresent' = "success"
    /\ pc' = "df_advance"

ScNext ==
    \/ ScMainLoopIter
    \/ DfWait
    \/ ScAcquire
    \/ DfResetFence
    \/ DfUpdateUniform
    \/ DfRecord
    \/ ScSubmit
    \/ ScPresent
    \/ DfAdvance
    \/ GpuExecute
    \/ PresentEngine

SpecScenario == ScInit /\ [][ScNext]_vars

\* Number of the first k iterations that ran on residue r modulo n.
RoundRobinShare(k, n, r) == Cardinality({j \in 0 .. (k - 1) : j % n = r})

\* C17: with images handed out round-robin and no rebuild, each fence
\* alternates reset and signal, one cycle per iteration run on its slot, and
\* each render-finished semaphore is signaled once per iteration that
\* acquired its image: after k iterations, once the graphics queue has
\* drained, slot f has cycled as many times as iterations ran on it and image
\* i's semaphore has been signaled as many times as i was acquired.
C17_SteadyStateCounts ==
    stats.on =>
        /\ \A f \in Frames :
              /\ stats.fenceSignals[f] <= stats.fenceResets[f]
              /\ stats.fenceResets[f] <= stats.fenceSignals[f] + 1
              /\ sync.inFlight[f].signaled <=> stats.fenceResets[f] = stats.fenceSignals[f]
        /\ pc = "loop" =>
              \A f \in Frames :
                  /\ stats.fenceResets[f] =
                        RoundRobinShare(stats.iterations, MAX_FRAMES_IN_FLIGHT, f)
                  /\ stats.fenceSignals[f] =
                        stats.fenceResets[f] - (IF InFlight(f) THEN 1 ELSE 0)
        /\ (pc = "loop" /\ gfxQueue = <<>>) =>
              \A i \in DOMAIN swapchain.images :
                  stats.renderFinishedSignals[i] =
                      RoundRobinShare(stats.iterations, Size(swapchain.images), i)

\* C17 witness: 2 slots, 3 images, 6 iterations: every render-finished
\* semaphore has been signaled twice and every fence has cycled three times.
C17_Witness ==
    /\ stats.on
    /\ pc = "loop"
    /\ gfxQueue = <<>>
    /\ stats.iterations = 6
    /\ Size(swapchain.images) = 3
    /\ \A i \in DOMAIN swapchain.images : stats.renderFinishedSignals[i] = 2
    /\ \A f \in Frames :
          /\ stats.fenceResets[f] = 3
          /\ stats.fenceSignals[f] = 3
          /\ sync.inFlight[f].signaled

\* C21: when run has returned normally, every semaphore, fence, framebuffer,
\* image view and swapchain created during the run has been destroyed.
C21_NoLeakAtExit ==
    (pc = "exit" /\ exitCode = 0) => live = {}

\* C22: the minimised-window poll of a rebuild runs only after the idle-wait
\* and the destruction of the old swapchain objects.
C22_PollAfterDestroy ==
    pc = "rc_poll" =>
        /\ DeviceIdle
        /\ swapchain.swapChain = NullHandle
        /\ sync.renderFinished = <<>>

\* C26: when the process exits after a fatal error, cleanup has destroyed
\* the objects the run created.
C26_TeardownAfterFatal ==
    (pc = "exit" /\ exitCode = 1) => live = {}

\* The graphics queue completes its oldest submission in this step.
SubmissionCompletes == gfxQueue # <<>> /\ gfxQueue' = Tail(gfxQueue)

\* C23: a submission never signals a render-finished semaphore that is still
\* signaled: the signal of the previous submission on that semaphore has been
\* consumed by a present wait (or the semaphore is a new one) before it is
\* signaled again.
C23_RenderFinishedNotResignaled ==
    [][SubmissionCompletes =>
          ~sync.renderFinished[Head(gfxQueue).signalSem].signaled]_vars

\* C23 witness: with two images and no rebuild, the third iteration's
\* submission is queued behind the second's, so it signals the semaphore of
\* an image an earlier iteration rendered to and presented.
C23_Witness ==
    /\ rebuilds = 0
    /\ Size(swapchain.images) = 2
    /\ Len(gfxQueue) = 2
    /\ gfxQueue[1].cmdBuf = 1
    /\ gfxQueue[2].cmdBuf = 0
    /\ gfxQueue[1].signalSem # gfxQueue[2].signalSem

\* C24: when drawFrame passes the image-available semaphore of the slot to
\* vkAcquireNextImageKHR no signal is pending on it, and an image-available
\* semaphore is signaled only while the submission that waits on it is still
\* to be made or to be executed.
C24_ImageAvailableConsumed ==
    /\ pc = "df_acquire" => ~sync.imageAvailable[currentFrame].signaled
    /\ \A f \in DOMAIN sync.imageAvailable :
          sync.imageAvailable[f].signaled =>
              \/ \E k \in DOMAIN gfxQueue :
                    gfxQueue[k].waitCount = 1 /\ gfxQueue[k].waitSem = f
              \/ /\ f = currentFrame
                 /\ pc \in {"df_reset", "df_update", "df_record", "df_submit", "error", "exit"}
                 /\ "present" \notin callLog

\* C24 witness: the slot's semaphore, signaled by the previous acquisition on
\* the slot and consumed by that iteration's submission, is passed to the
\* acquisition again.
C24_Witness ==
    /\ pc = "df_acquire"
    /\ rebuilds = 0
    /\ currentFrame = 0
    /\ InFlight(1)

\* The presentation engine completes its oldest present request in this step.
PresentCompletes == presentQueue # <<>> /\ presentQueue' = Tail(presentQueue)

\* Every queued submission waits on the image-available semaphore of its
\* slot and renders to an image the engine has not released; every queued
\* present waits on the render-finished semaphore of its image; a released
\* image has no pending submission and no pending render-finished signal.
ChainState ==
    /\ \A k \in DOMAIN gfxQueue :
          /\ gfxQueue[k].waitCount = 1
          /\ gfxQueue[k].waitSem = gfxQueue[k].cmdBuf
          /\ imageState[gfxQueue[k].signalSem] # "free"
    /\ \A k \in DOMAIN presentQueue :
          /\ presentQueue[k].waitCount = 1
          /\ presentQueue[k].waitSem = presentQueue[k].image
          /\ imageState[presentQueue[k].image] = "queued"
    /\ \A i \in DOMAIN imageState :
          imageState[i] = "free" =>
              /\ i \in DOMAIN sync.renderFinished => ~sync.renderFinished[i].signaled
              /\ \A k \in DOMAIN presentQueue : presentQueue[k].image # i

\* A submission executes only after the acquisition of its slot signaled
\* image-available, and a present is processed only after the submission on
\* its image has completed and signaled render-finished.
ChainStep ==
    /\ SubmissionCompletes =>
          /\ Head(gfxQueue).waitCount = 1
          /\ sync.imageAvailable[Head(gfxQueue).waitSem].signaled
    /\ PresentCompletes =>
          /\ Head(presentQueue).waitCount = 1
          /\ sync.renderFinished[Head(presentQueue).waitSem].signaled
          /\ \A k \in DOMAIN gfxQueue : gfxQueue[k].signalSem # Head(presentQueue).image

\* C25: acquire, submit and present of an iteration are ordered by the
\* semaphore chain, so the engine never releases for re-acquisition an image
\* whose submission has not completed.
C25_SemaphoreChain == []ChainState /\ [][ChainStep]_vars

\* C25 witness: the present of an image is queued while the submission that
\* renders to it has not executed yet.
C25_Witness ==
    /\ presentQueue # <<>>
    /\ \E k \in DOMAIN gfxQueue : gfxQueue[k].signalSem = Head(presentQueue).image
    /\ ~sync.renderFinished[Head(presentQueue).waitSem].signaled

\* vkQueueSubmit of the latest call accepted the submission: the fence the
\* call reset is pending on the queue or has been signaled.
SubmissionAccepted == InFlight(frameAtEntry) \/ sync.inFlight[frameAtEntry].signaled

\* What the latest drawFrame call has issued so far.
IssuedInCall ==
    /\ "present" \in callLog => "submit" \in callLog /\ SubmissionAccepted
    /\ "submit" \in callLog => "acquire" \in callLog /\ resAcquire \in {"success", "suboptimal"}
    /\ ("submit" \in callLog /\ SubmissionAccepted /\ pc # "df_present") =>
          "present" \in callLog
    /\ resAcquire = "outOfDate" => callLog \cap {"submit", "present"} = {}

\* An acquisition, submission or present is the first of its call.
IssuedOnce ==
    /\ pc = "df_acquire" /\ pc' # pc => "acquire" \notin callLog
    /\ pc = "df_submit" /\ pc' # pc => "submit" \notin callLog
    /\ pc = "df_present" /\ pc' # pc => "present" \notin callLog
    /\ Len(gfxQueue') <= Len(gfxQueue) + 1
    /\ Len(gfxQueue') > Len(gfxQueue) => pc = "df_submit"
    /\ Len(presentQueue') <= Len(presentQueue) + 1
    /\ Len(presentQueue') > Len(presentQueue) => pc = "df_present"

\* C27: a drawFrame call acquires, submits and presents at most once; it
\* presents exactly when its submission was accepted, and neither submits nor
\* presents when its acquisition reported out-of-date.
C27_OneOfEachPerCall == []IssuedInCall /\ [][IssuedOnce]_vars

\* C27 witness: a call that acquired, submitted and presented has returned.
C27_Witness ==
    /\ pc = "loop"
    /\ {"acquire", "submit", "present", "advance"} \subseteq callLog
    /\ "recreate" \notin callLog

\* C28: when vkQueueSubmit fails drawFrame throws: the call issues no
\* present, runs no rebuild and does not advance the slot counter, and the
\* process ends with EXIT_FAILURE.
C28_SubmitFailureThrows ==
    ("submit" \in callLog /\ ~SubmissionAccepted) =>
        /\ pc \in {"error", "exit"}
        /\ pc = "exit" => exitCode = 1
        /\ callLog \cap {"present", "recreate", "advance"} = {}
        /\ currentFrame = frameAtEntry
        /\ \A k \in DOMAIN presentQueue : presentQueue[k].image # imageIndex

\* C28 witness: the submission of an iteration on slot 1 failed and the
\* process has exited.
C28_Witness ==
    /\ pc = "exit"
    /\ exitCode = 1
    /\ "submit" \in callLog
    /\ ~SubmissionAccepted
    /\ frameAtEntry = 1

\* The resize flag changes only when the callback sets it during event
\* processing (glfwPollEvents in mainLoop, glfwWaitEvents in a rebuild) or
\* when the test after the present clears it and starts a rebuild.
FlagStep ==
    framebufferResized' # framebufferResized =>
        \/ framebufferResized' /\ pc \in {"loop", "rc_poll"}
        \/ ~framebufferResized' /\ pc = "df_present" /\ pc' = "rc_begin"

\* A flag found set after the present has been consumed: it is set again
\* only by an event processed in the rebuild it started.
FlagConsumedAtPresent ==
    ("present" \in callLog /\ framebufferResized) => "recreate" \in callLog

\* C29: the resize flag is set only by the callback during event processing
\* and cleared only by the test after the present; an iteration abandoned at
\* acquire leaves it as it is, so a flag set by then is still set when a
\* later iteration reaches the present and starts the rebuild.
C29_ResizeFlagSingleReader == []FlagConsumedAtPresent /\ [][FlagStep]_vars

\* C29 witness: an iteration abandoned at acquire has returned from its
\* rebuild and the resize flag is still set.
C29_Witness ==
    /\ pc = "loop"
    /\ resAcquire = "outOfDate"
    /\ "recreate" \in callLog
    /\ framebufferResized

\* C30: outside a rebuild and until teardown the image views, framebuffers
\* and render-finished semaphores are as many as the swapchain images, and
\* the image index of the iteration is an index of each of them.
C30_PerImageLockstep ==
    pc \in {"loop", "df_wait", "df_acquire", "df_reset", "df_update", "df_record",
            "df_submit", "df_present", "df_advance"} =>
        /\ Size(swapchain.imageViews) = Size(swapchain.images)
        /\ Size(swapchain.framebuffers) = Size(swapchain.images)
        /\ Size(sync.renderFinished) = Size(swapchain.images)
        /\ DOMAIN swapchain.framebuffers = DOMAIN swapchain.images
        /\ DOMAIN sync.renderFinished = DOMAIN swapchain.images
        /\ pc \in {"df_reset", "df_update", "df_record", "df_submit", "df_present"} =>
              imageIndex \in DOMAIN swapchain.images

\* C30 witness: a drawFrame call starts after a rebuild that changed the
\* image count to the largest one.
C30_Witness ==
    /\ pc = "df_wait"
    /\ rebuilds > 0
    /\ Size(swapchain.images) = MaxMinImageCount + 1
    /\ rcEntry = NoEntry

\* C33: createSyncObjects leaves every fence signaled, and the fence wait at
\* the head of drawFrame passes whenever no submission of the slot is
\* outstanding, in particular on a slot whose fence has never been submitted.
C33_FencesCreatedSignaled ==
    /\ pc = "df_wait" /\ ~InFlight(currentFrame) => FenceWaitDone(currentFrame)
    /\ (pc = "loop" /\ (callLog = {} \/ RebuildJustReturned)) =>
          \A f \in Frames :
              \/ sync.inFlight[f].signaled
              \/ InFlight(f)

\* C33 witness: a rebuild has just created the fences; the one of the slot
\* the next iteration runs on is a new object, nothing has been submitted
\* with it, and it is signaled.
C33_Witness ==
    /\ pc = "loop"
    /\ RebuildJustReturned
    /\ rebuilds > 0
    /\ sync.inFlight[currentFrame].handle = Handle("fence", rebuilds, currentFrame)
    /\ gfxQueue = <<>>
    /\ sync.inFlight[currentFrame].signaled

\* C34: the fences, the image-available semaphores, the command buffers and
\* the uniform collections are MAX_FRAMES_IN_FLIGHT each in every state.
C34_FrameSlotCountFixed ==
    /\ Size(sync.inFlight) = MAX_FRAMES_IN_FLIGHT
    /\ Size(sync.imageAvailable) = MAX_FRAMES_IN_FLIGHT
    /\ Size(commandBuffers) = MAX_FRAMES_IN_FLIGHT
    /\ Size(buffers.uniformBuffers) = MAX_FRAMES_IN_FLIGHT
    /\ Size(buffers.uniformMemory) = MAX_FRAMES_IN_FLIGHT
    /\ Size(buffers.uniformMapped) = MAX_FRAMES_IN_FLIGHT
    /\ DOMAIN sync.inFlight = Frames
    /\ DOMAIN sync.imageAvailable = Frames

\* C34 witness: a second rebuild has returned with an image count different
\* from the number of frame slots and from the count it found.
C34_Witness ==
    /\ RebuildJustReturned
    /\ rebuilds = 2
    /\ Size(swapchain.images) # MAX_FRAMES_IN_FLIGHT
    /\ Size(swapchain.images) # rcEntry.images

\* ------------------------------------------------- progress of the loop

\* Rebuilds made, plus those the state already calls for: a rebuild about to
\* start, a resize flag still to be consumed, a minimised window still to be
\* restored (whose restore sets the flag).
RebuildDemand ==
    rebuilds + (IF pc = "rc_begin" THEN 1 ELSE 0)
             + (IF framebufferResized THEN 1 ELSE 0)
             + (IF IsZeroArea(winExtent) THEN 1 ELSE 0)

\* The environment of the progress specifications: the window is not closed,
\* the surface keeps its image count, and results and events that call for a
\* rebuild arrive only while MaxRebuilds allows the rebuilds they call for.
EnvStep ==
    /\ shouldClose' = shouldClose
    /\ surfMinImages' = surfMinImages
    /\ RebuildDemand' <= MaxRebuilds

LiveMainLoopIter == MainLoopIter /\ EnvStep

LiveAcquire == DfAcquire /\ resAcquire' # "fatal" /\ EnvStep

LiveSubmit == DfSubmit /\ pc' = "df_present"

LivePresent == DfPresent /\ resPresent' # "fatal" /\ EnvStep

\* glfwWaitEvents returns with the event that restores the minimised window.
LivePollRestore ==
    /\ IsZeroArea(winExtent)
    /\ RcPoll
    /\ ~IsZeroArea(winExtent')
    /\ EnvStep

\* glfwWaitEvents returns with any other event.
LivePollOther ==
    /\ RcPoll
    /\ IsZeroArea(winExtent) => IsZeroArea(winExtent')
    /\ EnvStep

\* The steps of the host thread that wait for no window event.
LiveHost ==
    \/ LiveMainLoopIter
    \/ DfWait
    \/ LiveAcquire
    \/ DfResetFence
    \/ DfUpdateUniform
    \/ DfRecord
    \/ LiveSubmit
    \/ LivePresent
    \/ DfAdvance
    \/ RcBegin
    \/ RcWaitIdle
    \/ RcCleanup
    \/ RcCreate
    \/ RcSync

LiveNext ==
    \/ LiveHost
    \/ LivePollRestore
    \/ LivePollOther
    \/ GpuExecute
    \/ PresentEngine

\* The host thread runs whenever it can, the GPU completes every submission,
\* the presentation engine processes every present, and a minimised window is
\* eventually restored.  No other event is promised.
SpecLiveQuiet ==
    /\ Init
    /\ [][LiveNext]_vars
    /\ WF_vars(LiveHost)
    /\ WF_vars(GpuExecute)
    /\ WF_vars(PresentEngine)
    /\ WF_vars(LivePollRestore)

\* As SpecLiveQuiet, and window events keep arriving while the host waits
\* for one.
SpecLive ==
    /\ SpecLiveQuiet
    /\ WF_vars(LivePollOther)

\* The host thread is inside a drawFrame call.
InCall ==
    pc \in {"df_wait", "df_acquire", "df_reset", "df_update", "df_record", "df_submit",
            "df_present", "df_advance", "rc_begin", "rc_poll", "rc_idle", "rc_cleanup",
            "rc_create", "rc_sync"}

\* C31: once the resize flag is set, the test after a present eventually
\* finds it, clears it and starts a rebuild.
C31_ResizeLeadsToRebuild ==
    framebufferResized ~> (pc = "rc_begin" /\ "present" \in callLog /\ ~framebufferResized)

\* C31 witness: after an earlier rebuild, a present returned success and the
\* test after it found the resize flag set, cleared it and starts a rebuild.
C31_Witness ==
    /\ pc = "rc_begin"
    /\ "present" \in callLog
    /\ resPresent = "success"
    /\ rebuilds > 0
    /\ ~framebufferResized

\* C32: every drawFrame call eventually returns.
C32_EveryCallReturns == InCall ~> pc = "loop"

====
